---- MODULE Spec2Model ----
(***************************************************************************)
(* Transaction orchestration of the irita SDK base client:                 *)
(*   - locker: sharded lock built from buffered channels                   *)
(*   - baseClient.BuildAndSend / baseClient.SendBatch with retry.Do        *)
(*   - NewGRPCClient / GenConn: the process-wide connection singleton      *)
(***************************************************************************)
EXTENDS Integers, Sequences, FiniteSets, TLC

(* ---------------- program constants (base_client.go:29-35) ------------- *)
concurrency == 16
tryThreshold == 3
maxBatch == 100
\* capacity of each shard channel: make(chan int, 1)
ShardCap == 1

(* ---------------- bounds of the model ---------------------------------- *)
\* number of goroutines calling BuildAndSend / SendBatch
NumProcs == 2
\* new calls start only while the signer's sequence on the node is below
\* this cap (MaxSeqWide: in the workload that signs with every key)
MaxSeq == 2
MaxSeqWide == 1
\* transactions of other processes are broadcast only while the account's
\* sequence on the node is below this cap
MaxExt == 3
\* number of goroutines calling NewGRPCClient
NumCallers == 3

Procs == 1..NumProcs
Callers == 1..NumCallers

Nil == "nil"

(* ---------------- uint32 arithmetic on 4 little-endian bytes ----------- *)
\* uint32(2166136261) = 0x811C9DC5
offset32 == <<197, 157, 28, 129>>
\* uint32(16777619) = 0x01000193
prime32 == <<147, 1, 0, 1>>

RECURSIVE Xor(_, _)
Xor(a, b) ==
  IF a = 0 THEN b
  ELSE IF b = 0 THEN a
  ELSE ((a + b) % 2) + 2 * Xor(a \div 2, b \div 2)

\* a * b truncated to 32 bits
Mul32(a, b) ==
  LET c1 == a[1] * b[1]
      c2 == a[1] * b[2] + a[2] * b[1] + (c1 \div 256)
      c3 == a[1] * b[3] + a[2] * b[2] + a[3] * b[1] + (c2 \div 256)
      c4 == a[1] * b[4] + a[2] * b[3] + a[3] * b[2] + a[4] * b[1] + (c3 \div 256)
  IN  <<c1 % 256, c2 % 256, c3 % 256, c4 % 256>>

\* hash ^= uint32(key[i])
XorByte(h, byte) == [h EXCEPT ![1] = Xor(h[1], byte)]

\* uint(h) % uint(size)
Mod32(h, size) ==
  LET r4 == h[4] % size
      r3 == (r4 * 256 + h[3]) % size
      r2 == (r3 * 256 + h[2]) % size
  IN  (r2 * 256 + h[1]) % size

(* ---------------- locker (base_client.go:394-440) ----------------------- *)
RECURSIVE hashLoop(_, _, _)
hashLoop(hash, key, i) ==
  IF i > Len(key) THEN hash
  ELSE hashLoop(XorByte(Mul32(hash, prime32), key[i]), key, i + 1)

indexFor(key) == hashLoop(offset32, key, 1)

getShard(key) == Mod32(indexFor(key), concurrency)

\* ch <- 1 can proceed only while the buffer has room
CanSendMutant(ch) == TRUE
CanSend(ch) == Len(ch) < ShardCap

\* <-ch can proceed only when the buffer holds a value
CanRecv(ch) == Len(ch) > 0

NewLocker(size) == [s \in 0..(size - 1) |-> <<>>]

LockSendMutant(sh, key) == sh
LockSend(sh, key) == [sh EXCEPT ![getShard(key)] = Append(@, 1)]

UnlockRecvMutant(sh, key) == sh
UnlockRecv(sh, key) == [sh EXCEPT ![getShard(key)] = Tail(@)]

\* keys "a", "q" (same shard as "a") and "b"
Keys == {<<97>>, <<113>>, <<98>>}
\* QueryAddress: the address of the key named by baseTx.From
Address(from) == <<105, 97, 97>> \o from

Addrs == {Address(k) : k \in Keys}

(* ---------------- messages and errors ----------------------------------- *)
\* service.ModuleName
ServiceRoute == "service"

MkMsgs(n, route, bad) ==
  [k \in 1..n |-> [id |-> k, route |-> route, valid |-> (k # bad)]]

\* message lists SendBatch is called with: empty, one small group, a list
\* whose 3rd message of 5 fails ValidateBasic, 250 service messages
SmallMsgs == MkMsgs(2, "bank", 0)
BadMsgs == MkMsgs(5, "bank", 3)
BigMsgs == MkMsgs(250, ServiceRoute, 0)

\* the message list BuildAndSend is called with
OneMsg == MkMsgs(1, "bank", 0)

\* codes with which the node rejects a transaction whose sequence is right
NodeRejects == {"InvalidSequence", "Unauthorized"}

\* replies of the service Params query: an error, or res.Params.TxSizeLimit
\* (in message units)
ParamsReplies ==
  { [ok |-> FALSE, limit |-> 0], [ok |-> TRUE, limit |-> 0],
    [ok |-> TRUE, limit |-> 120] }

\* msgs[lo:] of Go
SliceFrom(s, lo) == SubSeq(s, lo + 1, Len(s))

\* msgs = msgs[i*batch:] of the too-large branch: drops the groups before
\* group i (numbered from 0), which have been broadcast
TrimSentMutant(msgs, i, batch) == SliceFrom(msgs, (i + 1) * batch)
TrimSent(msgs, i, batch) == SliceFrom(msgs, i * batch)

\* batch = batch / 2 of the too-large branch
HalveMutant(batch) == batch - maxBatch \div 2
Halve(batch) == batch \div 2

\* utils.SubArray: consecutive groups of subLen elements, the last one
\* possibly shorter
SubArray(subLen, array) ==
  IF Len(array) <= subLen THEN <<array>>
  ELSE LET cnt == (Len(array) + subLen - 1) \div subLen
       IN  [g \in 1..cnt |->
              SubSeq(array, (g - 1) * subLen + 1,
                     IF g * subLen < Len(array) THEN g * subLen ELSE Len(array))]

\* an error value: what failed, and for a message error which message
Err(code, k) == [code |-> code, k |-> k]

\* the nil error
NoErr == [codespace |-> "", desc |-> <<>>]

\* sdk.Wrap / sdk.Wrapf: nil stays nil, otherwise an sdk error that keeps
\* the description of what it wraps (desc: the errors it describes)
Wrap(desc) == IF desc = <<>> THEN NoErr ELSE [codespace |-> "sdk", desc |-> desc]

\* retryIfFunc of BuildAndSend
retryIfFuncMutant(err) == TRUE
retryIfFunc(err) == err.code = "WrongSequence"

\* retryIf of SendBatch
retryIf(err) == err.code = "InvalidSequence" \/ err.code = "TxTooLarge"

\* grpcClient.GenConn: the singleton, and a nil error
GenConn(singleton) == [conn |-> singleton, err |-> <<>>]

\* ValidateTxSize: conn is what GenConn returned, reply what the Params
\* query over it returned
ValidateTxSize(txSize, msgs, conn, reply) ==
  IF \E k \in 1..Len(msgs) : msgs[k].route = ServiceRoute
  THEN IF conn.err # <<>> THEN [valid |-> FALSE, err |-> conn.err]
       ELSE IF ~reply.ok THEN [valid |-> FALSE, err |-> <<Err("ParamsQuery", 0)>>]
       ELSE IF txSize > reply.limit THEN [valid |-> FALSE, err |-> <<>>]
       ELSE [valid |-> TRUE, err |-> <<>>]
  ELSE [valid |-> TRUE, err |-> <<>>]

\* a signed transaction / its broadcast result: signer, sequence signed
\* with, first message and number of messages
NoTx == [addr |-> <<>>, seq |-> 0 - 1, first |-> 0, count |-> 0]

\* len(txByte) of a signed transaction, in message units
TxSize(tx) == tx.count

\* removeCache(address): address "" names no entry
removeCache(c, address) ==
  IF address \in DOMAIN c THEN [c EXCEPT ![address] = <<>>] ELSE c

\* onRetryFunc of BuildAndSend: the cache after it
onRetryFuncMutant(c, address) == c
onRetryFunc(c, address) == removeCache(c, address)

\* onRetry of SendBatch: the cache after it
onRetry(c, address) == removeCache(c, address)

(* ---------------- workloads ------------------------------------------------ *)
\* what the callers do in one run: the keys they sign with, the calls they
\* make, the lists they pass to SendBatch, the cap below which new calls
\* start, and whether other processes broadcast transactions of the same
\* accounts meanwhile
Workloads ==
  { [keys |-> Keys, kinds |-> {"BuildAndSend"},
     lists |-> {SmallMsgs}, maxSeq |-> MaxSeqWide, ext |-> FALSE],
    [keys |-> {<<97>>}, kinds |-> {"BuildAndSend", "SendBatch"},
     lists |-> {<<>>, SmallMsgs, BadMsgs}, maxSeq |-> MaxSeq, ext |-> FALSE],
    [keys |-> {<<97>>}, kinds |-> {"SendBatch"},
     lists |-> {BigMsgs}, maxSeq |-> MaxSeq, ext |-> FALSE],
    [keys |-> {<<97>>}, kinds |-> {"BuildAndSend"},
     lists |-> {SmallMsgs}, maxSeq |-> MaxSeq, ext |-> TRUE] }

(* ---------------- state -------------------------------------------------- *)
VARIABLES
  load,       \* the workload of the run
  shards,     \* locker.shards: the buffer of each shard channel
  cache,      \* account cache: address -> <<cached sequence>>, or <<>>
  nodeSeq,    \* the node's sequence of each account
  pc,         \* position of each goroutine
  op,         \* arguments of the call in progress
  loc,        \* locals of the call in progress
  ret,        \* the return of the step just taken, if it was one
  clientConnSingleton,  \* the package variable of the same name
  onceDone,   \* once: whether its function has run
  onceM,      \* once: the goroutine holding its mutex, 0 when free
  dials,      \* number of grpc.Dial calls made so far
  cpc,        \* position of each goroutine calling NewGRPCClient
  cloc,       \* its url argument and its local clientConn
  gen,        \* the GenConn return of the step just taken, if it was one
  crashed     \* an unrecovered panic has ended the process

txVars == <<load, shards, cache, nodeSeq, pc, op, loc, ret>>
connVars == <<clientConnSingleton, onceDone, onceM, dials, cpc, cloc, gen, crashed>>
vars == <<txVars, connVars>>

NoOp == [kind |-> Nil, from |-> <<>>]

\* a *grpc.ClientConn dialled to url; the nil pointer
Conn(url) == [target |-> url]
NilConn == [target |-> ""]

NoCloc == [url |-> "", clientConn |-> NilConn]

\* a GenConn return: who called, and the (conn, err) returned (err <<>>: nil)
NoGen == [caller |-> 0, conn |-> NilConn, err |-> <<>>]

NoLoc ==
  [msgs |-> <<>>, batch |-> 0, i |-> 0, n |-> 0, errorLog |-> <<>>,
   rs |-> <<>>, res |-> NoTx, address |-> <<>>, tx |-> NoTx,
   err |-> Err("", 0), failed |-> FALSE, panicking |-> FALSE, onRetry |-> 0]

\* a return: who returned from what, the values returned (res or rs, err),
\* whether a panic went on to the caller, the messages given to the failure
\* handler, and what retry.Do went through: the attempts, their errors,
\* whether it returned an error, and the OnRetry calls
NoRet ==
  [proc |-> 0, kind |-> Nil, from |-> <<>>, res |-> NoTx, rs |-> <<>>,
   err |-> NoErr, panic |-> FALSE, handler |-> <<>>, log |-> <<>>,
   attempts |-> 0, failed |-> FALSE, onRetry |-> 0]

Init ==
  /\ load \in Workloads
  /\ shards = NewLocker(concurrency)
  /\ cache = [a \in Addrs |-> <<>>]
  /\ nodeSeq = [a \in Addrs |-> 0]
  /\ pc = [p \in Procs |-> "idle"]
  /\ op = [p \in Procs |-> NoOp]
  /\ loc = [p \in Procs |-> NoLoc]
  /\ ret = NoRet
  /\ clientConnSingleton = Conn("grpc1")
  /\ onceDone = TRUE
  /\ onceM = 0
  /\ dials = 1
  /\ cpc = [c \in Callers |-> "have"]
  /\ cloc = [c \in Callers |-> NoCloc]
  /\ gen = NoGen
  /\ crashed = FALSE

(* ---------------- calls --------------------------------------------------- *)
\* a goroutine calls BuildAndSend(msg, baseTx)
CallBuildAndSend(p) ==
  /\ pc[p] = "idle"
  /\ "BuildAndSend" \in load.kinds
  /\ \E from \in load.keys :
       /\ nodeSeq[Address(from)] < load.maxSeq
       /\ op' = [op EXCEPT ![p] = [kind |-> "BuildAndSend", from |-> from]]
  /\ loc' = [loc EXCEPT ![p] = [NoLoc EXCEPT !.msgs = OneMsg]]
  /\ pc' = [pc EXCEPT ![p] = "lock"]
  /\ ret' = NoRet
  /\ UNCHANGED <<load, shards, cache, nodeSeq, connVars>>

\* a goroutine calls SendBatch(msgs, baseTx)
CallSendBatch(p) ==
  /\ pc[p] = "idle"
  /\ "SendBatch" \in load.kinds
  /\ \E from \in load.keys, msgs \in load.lists :
       /\ nodeSeq[Address(from)] < load.maxSeq
       /\ op' = [op EXCEPT ![p] = [kind |-> "SendBatch", from |-> from]]
       /\ loc' = [loc EXCEPT ![p] = [NoLoc EXCEPT !.msgs = msgs]]
  /\ pc' = [pc EXCEPT ![p] = "validate"]
  /\ ret' = NoRet
  /\ UNCHANGED <<load, shards, cache, nodeSeq, connVars>>

\* msgs == nil || len(msgs) == 0
EmptyListMutant(msgs) == FALSE
EmptyList(msgs) == Len(msgs) = 0

\* index of the first message failing ValidateBasic, 0 when all pass
FirstInvalidMutant(msgs) == 0
FirstInvalid(msgs) ==
  IF \A k \in 1..Len(msgs) : msgs[k].valid THEN 0
  ELSE CHOOSE k \in 1..Len(msgs) :
         /\ ~msgs[k].valid
         /\ \A j \in 1..(k - 1) : msgs[j].valid

\* the values a call hands back when it returns without retry.Do's verdict
Return(p, err, handler) ==
  [NoRet EXCEPT !.proc = p, !.kind = op[p].kind, !.from = op[p].from,
                !.res = loc[p].res, !.rs = loc[p].rs, !.err = err,
                !.handler = handler, !.log = loc[p].errorLog,
                !.failed = loc[p].failed, !.onRetry = loc[p].onRetry,
                !.attempts = IF pc[p] = "validate" THEN 0 ELSE loc[p].n + 1]

\* SendBatch up to the lock: the empty check and the ValidateBasic loop
SendBatchValidate(p) ==
  /\ pc[p] = "validate"
  /\ LET msgs == loc[p].msgs
         bad == FirstInvalid(msgs)
     IN  IF EmptyList(msgs) \/ bad # 0
         THEN /\ ret' = Return(p, Wrap(<<IF EmptyList(msgs) THEN Err("EmptyBatch", 0)
                                         ELSE Err("ValidateBasic", bad)>>), <<>>)
              /\ pc' = [pc EXCEPT ![p] = "idle"]
              /\ loc' = [loc EXCEPT ![p] = NoLoc]
              /\ op' = [op EXCEPT ![p] = NoOp]
         ELSE /\ pc' = [pc EXCEPT ![p] = "lock"]
              /\ ret' = NoRet
              /\ UNCHANGED <<loc, op>>
  /\ UNCHANGED <<load, shards, cache, nodeSeq, connVars>>

\* base.l.Lock(baseTx.From); SendBatch then sets batch = maxBatch
LockMutant(p) ==
  /\ pc[p] = "lock"
  /\ \A s \in DOMAIN shards : CanSend(shards[s])
  /\ shards' = LockSend(shards, op[p].from)
  /\ loc' = [loc EXCEPT ![p].batch = IF op[p].kind = "SendBatch" THEN maxBatch ELSE 0]
  /\ pc' = [pc EXCEPT ![p] = "build"]
  /\ ret' = NoRet
  /\ UNCHANGED <<load, cache, nodeSeq, op, connVars>>
Lock(p) ==
  /\ pc[p] = "lock"
  /\ CanSend(shards[getShard(op[p].from)])
  /\ shards' = LockSend(shards, op[p].from)
  /\ loc' = [loc EXCEPT ![p].batch = IF op[p].kind = "SendBatch" THEN maxBatch ELSE 0]
  /\ pc' = [pc EXCEPT ![p] = "build"]
  /\ ret' = NoRet
  /\ UNCHANGED <<load, cache, nodeSeq, op, connVars>>

(* ---------------- build --------------------------------------------------- *)
\* what the collaborators of a build answer: all succeed, QueryAddress fails,
\* ToMinCoin fails on baseTx.Fee, ToMinCoin fails on the configured fee,
\* the signer fails
BuildOutcomes == {"ok", "QueryAddress", "ToMinCoinFee", "ToMinCoinCfg", "Sign"}

\* QueryAndRefreshAccount: a cache hit answers from the cache; a miss (no
\* entry, or an entry past its time to live) asks the node and fills the cache
QueryAndRefreshAccount(c, ns, addr, expired) ==
  IF c[addr] # <<>> /\ ~expired
  THEN [seq |-> c[addr][1], cache |-> c]
  ELSE [seq |-> ns[addr], cache |-> [c EXCEPT ![addr] = <<ns[addr]>>]]

\* prepare(baseTx): the factory's address and sequence, an error, or a panic
prepare(c, ns, from, out, expired) ==
  IF out = "QueryAddress"
  THEN [result |-> "err", err |-> Err("AddressResolution", 0), addr |-> <<>>,
        seq |-> 0, cache |-> c]
  ELSE LET addr == Address(from)
           acc == QueryAndRefreshAccount(c, ns, addr, expired)
       IN  IF out = "ToMinCoinFee"
           THEN [result |-> "err", err |-> Err("InvalidCoins", 0), addr |-> addr,
                 seq |-> acc.seq, cache |-> acc.cache]
           ELSE IF out = "ToMinCoinCfg"
           THEN [result |-> "panic", err |-> Err("InvalidCoins", 0), addr |-> addr,
                 seq |-> acc.seq, cache |-> acc.cache]
           ELSE [result |-> "ok", err |-> Err("", 0), addr |-> addr,
                 seq |-> acc.seq, cache |-> acc.cache]

\* buildTx: prepare, then builder.BuildAndSign over the group's messages
buildTx(c, ns, from, mss, out, expired) ==
  LET f == prepare(c, ns, from, out, expired)
  IN  IF f.result # "ok" THEN f @@ [tx |-> NoTx]
      ELSE IF out = "Sign"
      THEN [f EXCEPT !.result = "err", !.err = Err("Signing", 0)] @@ [tx |-> NoTx]
      ELSE f @@ [tx |-> [addr |-> f.addr, seq |-> f.seq,
                         first |-> mss[1].id, count |-> Len(mss)]]

\* the messages of the group the loop of SendBatch is at (BuildAndSend: all)
GroupMutant(p) ==
  IF op[p].kind = "SendBatch"
  THEN LET groups == SubArray(loc[p].batch, loc[p].msgs)
       IN  groups[Len(groups) - loc[p].i]
  ELSE loc[p].msgs
Group(p) ==
  IF op[p].kind = "SendBatch"
  THEN SubArray(loc[p].batch, loc[p].msgs)[loc[p].i + 1]
  ELSE loc[p].msgs

\* base.buildTx(...) inside retryableFunc
Build(p) ==
  /\ pc[p] = "build"
  /\ \E out \in BuildOutcomes, expired \in BOOLEAN :
       LET b == buildTx(cache, nodeSeq, op[p].from, Group(p), out, expired)
       IN  /\ cache' = b.cache
           /\ IF b.result = "ok"
              THEN /\ loc' = [loc EXCEPT ![p].tx = b.tx]
                   /\ pc' = [pc EXCEPT ![p] =
                               IF op[p].kind = "SendBatch" THEN "size" ELSE "broadcast"]
              ELSE IF b.result = "err"
              THEN /\ loc' = [loc EXCEPT ![p].err = b.err]
                   /\ pc' = [pc EXCEPT ![p] = "retry"]
              ELSE /\ loc' = [loc EXCEPT ![p].panicking = TRUE]
                   /\ pc' = [pc EXCEPT ![p] = "unlock"]
  /\ ret' = NoRet
  /\ UNCHANGED <<load, shards, nodeSeq, op, connVars>>

(* ---------------- size check (SendBatch) ---------------------------------- *)
\* base.ValidateTxSize(len(txByte), mss) and the too-large branch
SizeCheck(p) ==
  /\ pc[p] = "size"
  /\ \E reply \in ParamsReplies :
       LET v == ValidateTxSize(TxSize(loc[p].tx), Group(p),
                                GenConn(clientConnSingleton), reply)
       IN  IF v.err # <<>>
           THEN /\ loc' = [loc EXCEPT ![p].err = v.err[1]]
                /\ pc' = [pc EXCEPT ![p] = "retry"]
           ELSE IF ~v.valid
           THEN /\ loc' = [loc EXCEPT
                             ![p].msgs = TrimSent(@, loc[p].i, loc[p].batch),
                             ![p].batch = Halve(@),
                             ![p].err = Err("TxTooLarge", 0)]
                /\ pc' = [pc EXCEPT ![p] = "retry"]
           ELSE /\ pc' = [pc EXCEPT ![p] = "broadcast"]
                /\ UNCHANGED loc
  /\ ret' = NoRet
  /\ UNCHANGED <<load, shards, cache, nodeSeq, op, connVars>>

(* ---------------- broadcast ----------------------------------------------- *)
\* the node's answer to BroadcastTx: a transaction signed with another
\* sequence than the account's is rejected as wrong sequence
NodeAnswers(ns, tx) ==
  IF tx.seq # ns[tx.addr] THEN {"WrongSequence"} ELSE {"ok"} \cup NodeRejects

\* base.broadcastTx(txByte, ctx.Mode()) and what follows it in retryableFunc;
\* when retryableFunc returns nil, retry.Do returns nil
Broadcast(p) ==
  /\ pc[p] = "broadcast"
  /\ LET tx == loc[p].tx
     IN  \E ans \in NodeAnswers(nodeSeq, tx) :
           IF ans = "ok"
           THEN /\ nodeSeq' = [nodeSeq EXCEPT ![tx.addr] = @ + 1]
                /\ IF op[p].kind = "BuildAndSend"
                   THEN /\ loc' = [loc EXCEPT ![p].res = tx]
                        /\ pc' = [pc EXCEPT ![p] = "unlock"]
                   ELSE /\ loc' = [loc EXCEPT ![p].rs = Append(@, tx),
                                              ![p].i = @ + 1]
                        /\ pc' = [pc EXCEPT ![p] =
                                    IF loc[p].i + 1 < Len(SubArray(loc[p].batch, loc[p].msgs))
                                    THEN "build" ELSE "unlock"]
           ELSE /\ loc' = [loc EXCEPT ![p].address = tx.addr,
                                      ![p].err = Err(ans, 0),
                                      ![p].res = IF op[p].kind = "BuildAndSend"
                                                 THEN NoTx ELSE @]
                /\ pc' = [pc EXCEPT ![p] = "retry"]
                /\ UNCHANGED nodeSeq
  /\ ret' = NoRet
  /\ UNCHANGED <<load, shards, cache, op, connVars>>

(* ---------------- retry.Do ------------------------------------------------- *)
\* whether the error of a failed attempt is retried by the call's RetryIf
Retryable(kind, err) ==
  IF kind = "BuildAndSend" THEN retryIfFunc(err) ELSE retryIf(err)

\* retry.Do after the attempt numbered n (from 0) failed: "stop" when RetryIf
\* refuses, "last" when it was the last of Attempts(tryThreshold), else "again"
RetryDecisionMutant(retryable, n) ==
  IF ~retryable THEN "stop" ELSE IF n >= 2 * tryThreshold THEN "last" ELSE "again"
RetryDecision(retryable, n) ==
  IF ~retryable THEN "stop"
  ELSE IF n = tryThreshold - 1 THEN "last"
  ELSE "again"

\* a failed attempt inside retry.Do: record the error, ask RetryIf, run
\* OnRetry (removeCache(address)), and go round again or return errorLog
Retry(p) ==
  /\ pc[p] = "retry"
  /\ LET err == loc[p].err
         errorLog == Append(loc[p].errorLog, err)
         d == RetryDecision(Retryable(op[p].kind, err), loc[p].n)
     IN  /\ cache' = IF d = "stop" THEN cache
                   ELSE IF op[p].kind = "BuildAndSend"
                   THEN onRetryFunc(cache, loc[p].address)
                   ELSE onRetry(cache, loc[p].address)
         /\ IF d = "again"
            THEN /\ loc' = [loc EXCEPT ![p].errorLog = errorLog,
                                       ![p].onRetry = @ + 1,
                                       ![p].n = @ + 1,
                                       ![p].i = 0]
                 /\ pc' = [pc EXCEPT ![p] = "build"]
            ELSE /\ loc' = [loc EXCEPT ![p].errorLog = errorLog,
                                       ![p].onRetry = IF d = "last" THEN @ + 1 ELSE @,
                                       ![p].failed = TRUE]
                 /\ pc' = [pc EXCEPT ![p] = "unlock"]
  /\ ret' = NoRet
  /\ UNCHANGED <<load, shards, nodeSeq, op, connVars>>

(* ---------------- return ---------------------------------------------------- *)
\* the error BuildAndSend returns: sdk.Wrap(err) of what retry.Do returned
BuildAndSendErr(failed, errorLog) == IF failed THEN Wrap(errorLog) ELSE NoErr

\* the error SendBatch returns after retry.Do: its result is dropped
SendBatchErr(failed, errorLog) == NoErr

\* whether the function defers sdk.CatchPanic: SendBatch does, BuildAndSend
\* does not
CatchesPanicMutant(kind) == FALSE
CatchesPanic(kind) == kind = "SendBatch"

\* the return of the call, with the deferred base.l.Unlock(baseTx.From); a
\* panic then goes on to the caller (BuildAndSend) or is recovered by
\* sdk.CatchPanic, which calls the failure handler (SendBatch)
Unlock(p) ==
  /\ pc[p] = "unlock"
  /\ CanRecv(shards[getShard(op[p].from)])
  /\ shards' = UnlockRecv(shards, op[p].from)
  /\ ret' =
       IF ~loc[p].panicking
       THEN Return(p, IF op[p].kind = "BuildAndSend"
                      THEN BuildAndSendErr(loc[p].failed, loc[p].errorLog)
                      ELSE SendBatchErr(loc[p].failed, loc[p].errorLog), <<>>)
       ELSE IF ~CatchesPanic(op[p].kind)
       THEN [Return(p, NoErr, <<>>) EXCEPT !.panic = TRUE]
       ELSE Return(p, NoErr, <<"broadcast msg failed">>)
  /\ pc' = [pc EXCEPT ![p] = "idle"]
  /\ loc' = [loc EXCEPT ![p] = NoLoc]
  /\ op' = [op EXCEPT ![p] = NoOp]
  /\ UNCHANGED <<load, cache, nodeSeq, connVars>>

(* ---------------- environment ---------------------------------------------- *)
\* another process broadcasts a transaction of the account
ExternalTx(a) ==
  /\ load.ext
  /\ a \in {Address(k) : k \in load.keys}
  /\ nodeSeq[a] < MaxExt
  /\ nodeSeq' = [nodeSeq EXCEPT ![a] = @ + 1]
  /\ ret' = NoRet
  /\ UNCHANGED <<load, shards, cache, pc, op, loc, connVars>>

Next ==
  \/ \E p \in Procs : CallBuildAndSend(p)
  \/ \E p \in Procs : CallSendBatch(p)
  \/ \E p \in Procs : SendBatchValidate(p)
  \/ \E p \in Procs : Lock(p)
  \/ \E p \in Procs : Build(p)
  \/ \E p \in Procs : SizeCheck(p)
  \/ \E p \in Procs : Broadcast(p)
  \/ \E p \in Procs : Retry(p)
  \/ \E p \in Procs : Unlock(p)
  \/ \E a \in Addrs : ExternalTx(a)

Spec == Init /\ [][Next]_vars

\* the steps of a call that wait for nothing but the goroutine's turn and
\* the return of a network call
Running(p) ==
  \/ SendBatchValidate(p)
  \/ Build(p)
  \/ SizeCheck(p)
  \/ Broadcast(p)
  \/ Retry(p)
  \/ Unlock(p)

\* the runs in which termination is followed: two keys of one shard, both
\* calls on one key, a list of two groups, and an account other processes
\* use too
MidMsgs == MkMsgs(maxBatch + 1, ServiceRoute, 0)

FairWorkloads ==
  { [keys |-> {<<97>>, <<113>>}, kinds |-> {"BuildAndSend"},
     lists |-> {SmallMsgs}, maxSeq |-> MaxSeqWide, ext |-> FALSE],
    [keys |-> {<<97>>}, kinds |-> {"BuildAndSend", "SendBatch"},
     lists |-> {<<>>, SmallMsgs}, maxSeq |-> MaxSeqWide, ext |-> FALSE],
    [keys |-> {<<97>>}, kinds |-> {"SendBatch"},
     lists |-> {MidMsgs}, maxSeq |-> MaxSeqWide, ext |-> FALSE],
    [keys |-> {<<97>>}, kinds |-> {"BuildAndSend"},
     lists |-> {SmallMsgs}, maxSeq |-> MaxSeq, ext |-> TRUE] }

InitFair ==
  /\ load \in FairWorkloads
  /\ shards = NewLocker(concurrency)
  /\ cache = [a \in Addrs |-> <<>>]
  /\ nodeSeq = [a \in Addrs |-> 0]
  /\ pc = [p \in Procs |-> "idle"]
  /\ op = [p \in Procs |-> NoOp]
  /\ loc = [p \in Procs |-> NoLoc]
  /\ ret = NoRet
  /\ clientConnSingleton = Conn("grpc1")
  /\ onceDone = TRUE
  /\ onceM = 0
  /\ dials = 1
  /\ cpc = [c \in Callers |-> "have"]
  /\ cloc = [c \in Callers |-> NoCloc]
  /\ gen = NoGen
  /\ crashed = FALSE

\* fair scheduling: a goroutine that can run does, every network call
\* returns, and a sender blocked on a shard channel gets its turn (the
\* runtime serves the senders waiting on a channel first come, first served)
SpecFair ==
  /\ InitFair /\ [][Next]_vars
  /\ \A p \in Procs : WF_vars(Running(p)) /\ SF_vars(Lock(p))
(* ---------------- NewGRPCClient / GenConn ------------------------------------ *)
\* the urls NewGRPCClient is called with
Urls == {"grpc1", "grpc2"}

\* the state before any NewGRPCClient call
InitConn ==
  /\ load \in {w \in Workloads : w.ext}
  /\ shards = NewLocker(concurrency)
  /\ cache = [a \in Addrs |-> <<>>]
  /\ nodeSeq = [a \in Addrs |-> 0]
  /\ pc = [p \in Procs |-> "idle"]
  /\ op = [p \in Procs |-> NoOp]
  /\ loc = [p \in Procs |-> NoLoc]
  /\ ret = NoRet
  /\ clientConnSingleton = NilConn
  /\ onceDone = FALSE
  /\ onceM = 0
  /\ dials = 0
  /\ cpc = [c \in Callers |-> "idle"]
  /\ cloc = [c \in Callers |-> NoCloc]
  /\ gen = NoGen
  /\ crashed = FALSE

\* a goroutine calls NewGRPCClient(url, info) and reaches once.Do
NewGRPCClient(c) ==
  /\ ~crashed
  /\ cpc[c] \in {"idle", "have"}
  /\ \E url \in Urls : cloc' = [cloc EXCEPT ![c] = [url |-> url, clientConn |-> NilConn]]
  /\ cpc' = [cpc EXCEPT ![c] = "once"]
  /\ gen' = NoGen
  /\ UNCHANGED <<clientConnSingleton, onceDone, onceM, dials, crashed, txVars>>

\* once.Do runs its function only while done is unset
OnceMustRunMutant(done) == TRUE
OnceMustRun(done) == ~done

\* once.Do: the unlocked look at done
OnceDo(c) ==
  /\ ~crashed
  /\ cpc[c] = "once"
  /\ cpc' = [cpc EXCEPT ![c] = IF OnceMustRun(onceDone) THEN "slow" ELSE "have"]
  /\ gen' = NoGen
  /\ UNCHANGED <<clientConnSingleton, onceDone, onceM, dials, cloc, crashed, txVars>>

\* once.Do: take the mutex and look at done again
OnceLock(c) ==
  /\ ~crashed
  /\ cpc[c] = "slow"
  /\ onceM = 0
  /\ IF OnceMustRun(onceDone)
     THEN /\ onceM' = c
          /\ cpc' = [cpc EXCEPT ![c] = "dial"]
     ELSE /\ onceM' = 0
          /\ cpc' = [cpc EXCEPT ![c] = "have"]
  /\ gen' = NoGen
  /\ UNCHANGED <<clientConnSingleton, onceDone, dials, cloc, crashed, txVars>>

\* grpc.Dial(url, dialOpts...); on an error panic(err), which leaves once.Do
\* through its deferred calls: done is set and the mutex released
Dial(c) ==
  /\ ~crashed
  /\ cpc[c] = "dial"
  /\ dials' = dials + 1
  /\ \E ok \in BOOLEAN :
       IF ok
       THEN /\ cloc' = [cloc EXCEPT ![c].clientConn = Conn(cloc[c].url)]
            /\ cpc' = [cpc EXCEPT ![c] = "assign"]
            /\ UNCHANGED <<onceDone, onceM>>
       ELSE /\ onceDone' = TRUE
            /\ onceM' = 0
            /\ cpc' = [cpc EXCEPT ![c] = "panicked"]
            /\ UNCHANGED cloc
  /\ gen' = NoGen
  /\ UNCHANGED <<clientConnSingleton, crashed, txVars>>

\* clientConnSingleton = clientConn
Assign(c) ==
  /\ ~crashed
  /\ cpc[c] = "assign"
  /\ clientConnSingleton' = cloc[c].clientConn
  /\ cpc' = [cpc EXCEPT ![c] = "finish"]
  /\ gen' = NoGen
  /\ UNCHANGED <<onceDone, onceM, dials, cloc, crashed, txVars>>

\* the function returns: once.Do sets done, releases the mutex and returns,
\* and NewGRPCClient returns &grpcClient{}
OnceFinish(c) ==
  /\ ~crashed
  /\ cpc[c] = "finish"
  /\ onceDone' = TRUE
  /\ onceM' = 0
  /\ cpc' = [cpc EXCEPT ![c] = "have"]
  /\ gen' = NoGen
  /\ UNCHANGED <<clientConnSingleton, dials, cloc, crashed, txVars>>

\* the panic of a failed dial reaches NewGRPCClient's caller, which recovers
\* it, or nobody does and the process ends
Recover(c) ==
  /\ ~crashed
  /\ cpc[c] = "panicked"
  /\ cpc' = [cpc EXCEPT ![c] = "idle"]
  /\ gen' = NoGen
  /\ UNCHANGED <<clientConnSingleton, onceDone, onceM, dials, cloc, crashed, txVars>>

Crash(c) ==
  /\ ~crashed
  /\ cpc[c] = "panicked"
  /\ crashed' = TRUE
  /\ gen' = NoGen
  /\ UNCHANGED <<clientConnSingleton, onceDone, onceM, dials, cpc, cloc, txVars>>

\* a goroutine holding a grpcClient calls GenConn()
CallGenConn(c) ==
  /\ ~crashed
  /\ cpc[c] = "have"
  /\ gen' = GenConn(clientConnSingleton) @@ [caller |-> c]
  /\ UNCHANGED <<clientConnSingleton, onceDone, onceM, dials, cpc, cloc, crashed, txVars>>

NextConn ==
  \/ \E c \in Callers : NewGRPCClient(c)
  \/ \E c \in Callers : OnceDo(c)
  \/ \E c \in Callers : OnceLock(c)
  \/ \E c \in Callers : Dial(c)
  \/ \E c \in Callers : Assign(c)
  \/ \E c \in Callers : OnceFinish(c)
  \/ \E c \in Callers : Recover(c)
  \/ \E c \in Callers : Crash(c)
  \/ \E c \in Callers : CallGenConn(c)

SpecConn == InitConn /\ [][NextConn]_vars
(* ========================= properties ====================================== *)
\* the goroutine is between its lock acquisition and its return
InWindow(p) == pc[p] \in {"build", "size", "broadcast", "retry", "unlock"}

\* the goroutines holding shard s
Holders(s) == {p \in Procs : InWindow(p) /\ getShard(op[p].from) = s}

\* C1: at most one caller holds a shard at any time: while a shard is held,
\* a Lock of a key of that shard (the same key or a colliding one) cannot
\* return, so no two calls with the same baseTx.From are between lock
\* acquisition and return together.
C1_MutualExclusion ==
  /\ \A s \in DOMAIN shards : Cardinality(Holders(s)) <= 1
  /\ \A p, q \in Procs :
       p # q /\ InWindow(p) /\ InWindow(q) => op[p].from # op[q].from
  /\ \A p \in Procs :
       pc[p] = "lock" /\ Holders(getShard(op[p].from)) # {} => ~ENABLED Lock(p)

\* a caller waits in Lock("q") while another holds the shard through "a"
C1_Witness ==
  \E p, q \in Procs :
    /\ pc[p] = "lock" /\ op[p].from = <<113>>
    /\ InWindow(q) /\ op[q].from = <<97>>

\* C2: a call that acquired the shard releases it exactly once by its
\* return, on every exit path: each shard holds exactly one token per call
\* in its window, so with no call in a window every shard is free.
C2_ReleasedOnReturn ==
  /\ \A s \in DOMAIN shards : Len(shards[s]) = Cardinality(Holders(s))
  /\ (\A p \in Procs : ~InWindow(p)) => \A s \in DOMAIN shards : shards[s] = <<>>

\* a BuildAndSend whose build panicked has returned, and all shards are free
C2_Witness ==
  /\ ret.kind = "BuildAndSend" /\ ret.panic
  /\ \A p \in Procs : pc[p] = "idle"
  /\ \A s \in DOMAIN shards : shards[s] = <<>>

\* the last error retry.Do recorded came from the node's broadcast answer
BroadcastFailed(r) ==
  /\ r.failed
  /\ r.log[Len(r.log)].code \in {"WrongSequence"} \cup NodeRejects

\* C3: when a group of SendBatch fails to broadcast and the failure is not
\* retried (or the retries are used up), SendBatch returns the results so
\* far together with a non-nil error.
C3_PartialResultsWithError ==
  ret.kind = "SendBatch" /\ BroadcastFailed(ret) => ret.err # NoErr

Last(q) == q[Len(q)]

\* errors of an attempt that got past QueryAndRefreshAccount and were not a
\* wrong sequence
OtherErrors == NodeRejects \cup {"Signing", "InvalidCoins"}

\* C4: BuildAndSend makes at most 3 attempts and makes another attempt only
\* after one that failed with the wrong-sequence code; an attempt failing
\* with any other error is the last one, its error is the one the returned
\* error ends with, no OnRetry ran for it and the account it cached is still
\* cached.
C4_RetryOnlyOnWrongSequence ==
  /\ \A p \in Procs :
       op[p].kind = "BuildAndSend" =>
         /\ loc[p].n <= tryThreshold - 1
         /\ Len(loc[p].errorLog) >= loc[p].n
         /\ \A k \in 1..loc[p].n : loc[p].errorLog[k].code = "WrongSequence"
         /\ ( /\ pc[p] = "unlock" /\ loc[p].failed
              /\ Last(loc[p].errorLog).code \in OtherErrors )
            => cache[Address(op[p].from)] # <<>>
  /\ ret.kind = "BuildAndSend" =>
       /\ ret.attempts <= tryThreshold
       /\ (ret.failed /\ Last(ret.log).code # "WrongSequence") =>
            /\ ret.attempts = Len(ret.log)
            /\ ret.err # NoErr
            /\ Last(ret.err.desc) = Last(ret.log)
            /\ ret.onRetry = Len(ret.log) - 1

\* a BuildAndSend retried once and then ended on a rejection of another kind
C4_Witness ==
  /\ ret.kind = "BuildAndSend"
  /\ ret.attempts = 2
  /\ ret.log = <<Err("WrongSequence", 0), Err("Unauthorized", 0)>>

\* C5: when no other process uses the account, a BuildAndSend whose first
\* attempt fails on a stale cached sequence has the cache entry removed
\* before its second attempt builds, the second attempt signs with the
\* sequence the node holds and is not rejected for its sequence: the call
\* ends after 2 attempts (at most 3), with success unless the second attempt
\* met an error of another kind or a panic of the build.
C5_StaleSequenceRecovered ==
  ~load.ext =>
    /\ \A p \in Procs :
         (op[p].kind = "BuildAndSend" /\ loc[p].n >= 1) =>
           /\ loc[p].n = 1
           /\ pc[p] = "build" => cache[Address(op[p].from)] = <<>>
           /\ pc[p] = "broadcast" => loc[p].tx.seq = nodeSeq[loc[p].tx.addr]
    /\ ( /\ ret.kind = "BuildAndSend"
         /\ ret.log # <<>>
         /\ ret.log[1].code = "WrongSequence" )
       => /\ ret.attempts = 2
          /\ ret.attempts <= tryThreshold
          /\ ret.onRetry = 1
          /\ \/ ~ret.failed /\ ~ret.panic /\ ret.err = NoErr /\ ret.res.seq >= 0
             \/ ret.failed /\ Len(ret.log) = 2 /\ ret.log[2].code # "WrongSequence"
             \/ ret.panic /\ Len(ret.log) = 1

\* a BuildAndSend succeeded at its second attempt after a stale first one
C5_Witness ==
  /\ ~load.ext
  /\ ret.kind = "BuildAndSend"
  /\ ret.err = NoErr
  /\ ret.attempts = 2
  /\ ret.log = <<Err("WrongSequence", 0)>>
  /\ ret.res.seq >= 1

\* C6: when all 3 attempts fail with the wrong-sequence error, the call
\* returns the error of the 3rd attempt itself, not an aggregate.
C6_ReturnsThirdError ==
  ( /\ ret.kind = "BuildAndSend"
    /\ ret.attempts = tryThreshold
    /\ ret.failed
    /\ \A k \in 1..Len(ret.log) : ret.log[k].code = "WrongSequence" )
  => ret.err = Wrap(<<ret.log[tryThreshold]>>)

\* the SendBatch of the 250 messages (msgs only loses messages at its front)
Big(p) ==
  /\ op[p].kind = "SendBatch"
  /\ loc[p].msgs # <<>>
  /\ Last(loc[p].msgs).id = 250

\* the too-large branch has just been taken at group 2 of the first attempt
Group2Rejected(p) ==
  /\ Big(p)
  /\ pc[p] = "retry" /\ loc[p].n = 0 /\ loc[p].i = 1
  /\ loc[p].err.code = "TxTooLarge"

Sizes(groups) == [g \in DOMAIN groups |-> Len(groups[g])]

Ids(msgs) == [k \in DOMAIN msgs |-> msgs[k].id]

RECURSIVE Flatten(_)
Flatten(groups) ==
  IF groups = <<>> THEN <<>> ELSE groups[1] \o Flatten(Tail(groups))

IsPrefix(a, b) == Len(a) <= Len(b) /\ SubSeq(b, 1, Len(a)) = a

\* the results so far stay in rs, in place, up to the return, which hands
\* rs back
ResultsKept ==
  \A p \in Procs :
    loc[p].rs # <<>> =>
      \/ IsPrefix(loc[p].rs, loc'[p].rs)
      \/ pc'[p] = "idle" /\ ret'.proc = p /\ ret'.rs = loc[p].rs

C7_FirstGroups(p) ==
  (Big(p) /\ Len(loc[p].msgs) = 250 /\ loc[p].batch = maxBatch) =>
    LET groups == SubArray(loc[p].batch, loc[p].msgs)
    IN  /\ Sizes(groups) = <<100, 100, 50>>
        /\ Flatten(groups) = loc[p].msgs
        /\ Ids(loc[p].msgs) = [k \in 1..250 |-> k]

\* the reading in which group 2's messages leave the remaining work with
\* group 1's: after group 2 is rejected as too large, batchSize is 50 and
\* the remaining messages 151-250 are re-grouped into sizes 50, 50.
C7_Regroup151 ==
  \A p \in Procs :
    /\ C7_FirstGroups(p)
    /\ Group2Rejected(p) =>
         /\ loc[p].batch = 50
         /\ Ids(loc[p].msgs) = [k \in 1..100 |-> 150 + k]
         /\ Sizes(SubArray(loc[p].batch, loc[p].msgs)) = <<50, 50>>

\* the state right after group 2 of the first attempt was rejected as too
\* large: batch halved, msgs = messages 101-250, group 1's result in rs
C7_Regroup101Inv ==
  \A p \in Procs :
    /\ C7_FirstGroups(p)
    /\ Group2Rejected(p) =>
         /\ loc[p].batch = 50
         /\ Ids(loc[p].msgs) = [k \in 1..150 |-> 100 + k]
         /\ Sizes(SubArray(loc[p].batch, loc[p].msgs)) = <<50, 50, 50>>
         /\ Len(loc[p].rs) = 1
         /\ loc[p].rs[1].first = 1 /\ loc[p].rs[1].count = 100

\* C7: SendBatch with 250 messages first forms groups of sizes 100, 100, 50
\* in the original order; when group 2 is rejected as too large, batchSize
\* becomes 50 and the remaining messages 101-250 (group 2 was not
\* broadcast) are re-grouped into sizes 50, 50, 50, and group 1's result
\* stays first in the result sequence up to and including the return.
C7_Regroup101 == []C7_Regroup101Inv /\ [][ResultsKept]_vars

\* the second attempt starts on messages 101-250 with batch 50, group 1's
\* result in rs
C7_Witness ==
  \E p \in Procs :
    /\ Big(p) /\ pc[p] = "build" /\ loc[p].n = 1 /\ loc[p].i = 0
    /\ loc[p].batch = 50 /\ Len(loc[p].msgs) = 150
    /\ Len(loc[p].rs) = 1 /\ loc[p].rs[1].count = 100

\* C8: in SendBatch a broadcast failing with the wrong-sequence error (the
\* one BuildAndSend retries) is retried after OnRetry has removed the cached
\* account: it ends the batch only as the last of the 3 attempts.
C8_BatchRetriesWrongSequence ==
  ( /\ ret.kind = "SendBatch"
    /\ ret.failed
    /\ Last(ret.log).code = "WrongSequence" )
  => /\ ret.attempts = tryThreshold
     /\ ret.onRetry >= 1

\* the goroutine has come back from NewGRPCClient (with a client, or by the
\* panic of the failed dial)
Came(c) == cpc[c] \in {"have", "panicked"}

\* one dial at most, and whoever is back from NewGRPCClient finds the
\* once done with no initialization still running
C9_Inv ==
  /\ dials <= 1
  /\ \A c \in Callers :
       Came(c) =>
         /\ dials = 1
         /\ onceDone
         /\ \A d \in Callers : cpc[d] \notin {"dial", "assign", "finish"}

\* C9: whatever the number, order and arguments of the NewGRPCClient calls,
\* grpc.Dial is called exactly once, no caller comes back from NewGRPCClient
\* before the function given to once.Do has finished, and once
\* clientConnSingleton is set no later call changes it.
C9_DialledOnce ==
  /\ []C9_Inv
  /\ [][clientConnSingleton # NilConn => clientConnSingleton' = clientConnSingleton]_vars

\* two callers asked for different urls and both have returned; the
\* singleton is the connection of one dial
C9_Witness ==
  \E c, d \in Callers :
    /\ cpc[c] = "have" /\ cpc[d] = "have"
    /\ cloc[c].url # cloc[d].url
    /\ cloc[c].url # "" /\ cloc[d].url # ""
    /\ dials = 1
    /\ clientConnSingleton # NilConn

\* C10: a GenConn call that returns a nil error returns the non-nil channel
\* the initialization created, also after an initialization whose dial
\* failed.
C10_GenConnReady ==
  (gen.caller # 0 /\ gen.err = <<>>) => gen.conn # NilConn

\* the SendBatch calls that have set their batch (var batch = maxBatch)
Batching(p) == op[p].kind = "SendBatch" /\ InWindow(p)

\* C11: the batch size SendBatch partitions with is at least 1 in every
\* state of the call: each attempt halves it at most once and there are at
\* most tryThreshold attempts, so it is one of 100, 50, 25, 12.
C11_BatchAtLeastOne ==
  \A p \in Procs :
    Batching(p) =>
      /\ loc[p].batch >= 1
      /\ loc[p].batch \in {maxBatch, maxBatch \div 2, maxBatch \div 4, maxBatch \div 8}
      /\ loc[p].msgs # <<>>

\* all three attempts of a SendBatch were rejected as too large
C11_Witness ==
  \E p \in Procs :
    /\ Batching(p) /\ pc[p] = "unlock"
    /\ loc[p].n = tryThreshold - 1
    /\ loc[p].batch = 12
    /\ \A k \in 1..Len(loc[p].errorLog) : loc[p].errorLog[k].code = "TxTooLarge"
    /\ Len(loc[p].errorLog) = tryThreshold

\* C12: a SendBatch call runs its loop at most 3 times in all: the attempts
\* are counted by the one retry.Do of the call, whatever group failed and
\* whichever of the two retried causes it failed with.
C12_BatchAttemptsShared ==
  /\ \A p \in Procs :
       op[p].kind = "SendBatch" =>
         /\ loc[p].n <= tryThreshold - 1
         /\ Len(loc[p].errorLog) <= tryThreshold
         /\ loc[p].onRetry <= tryThreshold
  /\ ret.kind = "SendBatch" =>
       /\ ret.attempts <= tryThreshold
       /\ Len(ret.log) <= tryThreshold

\* a SendBatch ended at its third attempt, having failed for both causes,
\* with the result of a group in rs
C12_Witness ==
  /\ ret.kind = "SendBatch"
  /\ ret.attempts = tryThreshold
  /\ ret.failed
  /\ \E j, k \in 1..Len(ret.log) :
       ret.log[j].code = "TxTooLarge" /\ ret.log[k].code = "InvalidSequence"
  /\ ret.rs # <<>>

\* the shard of the call is held by exactly its one token
HeldOnce(p) == shards[getShard(op[p].from)] = <<1>>

\* C13: from its lock acquisition to its return a SendBatch keeps the one
\* token it put in its sender's shard, through all groups and retries, and
\* meanwhile no other call with the same sender is past its Lock, so none
\* builds, size-checks or broadcasts.
C13_Step ==
  \A p \in Procs :
    Batching(p) =>
      /\ HeldOnce(p)
      /\ InWindow(p)' => /\ HeldOnce(p)'
                         /\ op'[p] = op[p]
      /\ \A q \in Procs \ {p} :
           op'[q].from = op[p].from =>
             /\ pc'[q] \in {"idle", "validate", "lock"}
             /\ loc'[q].tx = NoTx /\ loc'[q].rs = <<>>

C13_SingleAcquisition == [][C13_Step]_vars

\* a SendBatch is at its second group after a retry while a call with the
\* same sender waits in Lock
C13_Witness ==
  \E p, q \in Procs :
    /\ p # q
    /\ Batching(p) /\ loc[p].n >= 1 /\ loc[p].i >= 1 /\ pc[p] = "broadcast"
    /\ pc[q] = "lock" /\ op[q].from = op[p].from

\* the step is taken by goroutine p
StepOf(p) == pc'[p] # pc[p] \/ loc'[p] # loc[p]

\* SendBatch returns an error and nothing else: no result, no panic, no
\* failure handler call
OnlyError(p, err) ==
  /\ pc'[p] = "idle"
  /\ ret' = [NoRet EXCEPT !.proc = p, !.kind = "SendBatch",
                          !.from = op[p].from, !.err = err]

\* nothing the node or the lock would show has changed: no token sent to a
\* shard, no account fetched into the cache, no transaction accepted
NothingDone == UNCHANGED <<shards, cache, nodeSeq, clientConnSingleton>>

\* a SendBatch whose list is empty does nothing but return an error
C14_Step ==
  \A p \in Procs :
    (op[p].kind = "SendBatch" /\ loc[p].msgs = <<>> /\ StepOf(p)) =>
      /\ pc[p] = "validate"
      /\ OnlyError(p, Wrap(<<Err("EmptyBatch", 0)>>))
      /\ NothingDone

\* C14: SendBatch on an empty list fails with an error; its only step is
\* that return, before the lock, the account query, the size-limit query
\* and the broadcast, none of which it reaches.
C14_EmptyBatchFails ==
  /\ [](\A p \in Procs :
          op[p].kind = "SendBatch" /\ loc[p].msgs = <<>> => pc[p] = "validate")
  /\ [][C14_Step]_vars

\* a SendBatch of the empty list has just returned its error while the other
\* goroutine is in the middle of a call
C14_Witness ==
  /\ ret.kind = "SendBatch"
  /\ ret.err = Wrap(<<Err("EmptyBatch", 0)>>)
  /\ \E q \in Procs : q # ret.proc /\ InWindow(q)

\* the messages of the list that fail ValidateBasic
Invalid(msgs) == {k \in 1..Len(msgs) : ~msgs[k].valid}

\* a SendBatch whose list holds an invalid message does nothing but return
\* the validation error of the first such message
C15_Step ==
  \A p \in Procs :
    (op[p].kind = "SendBatch" /\ Invalid(loc[p].msgs) # {} /\ StepOf(p)) =>
      /\ pc[p] = "validate"
      /\ \E k \in Invalid(loc[p].msgs) :
           /\ \A j \in Invalid(loc[p].msgs) : k <= j
           /\ OnlyError(p, Wrap(<<Err("ValidateBasic", k)>>))
      /\ NothingDone

\* C15: when a message of the list fails ValidateBasic, SendBatch fails
\* with the error of the first such message; its only step is that return,
\* before the lock, so no message of the list, valid ones before the invalid
\* one included, is built, size-checked or broadcast.
C15_InvalidMessageFails ==
  /\ [](\A p \in Procs :
          op[p].kind = "SendBatch" /\ Invalid(loc[p].msgs) # {} => pc[p] = "validate")
  /\ [][C15_Step]_vars

\* the SendBatch of 5 messages whose 3rd is invalid has returned
C15_Witness ==
  /\ ret.kind = "SendBatch"
  /\ ret.err = Wrap(<<Err("ValidateBasic", 3)>>)
  /\ ret.rs = <<>>

\* the loop of the attempt is at a group, or has gone through all of them
InLoop(p) ==
  \/ pc[p] \in {"build", "size", "broadcast"}
  \/ pc[p] = "unlock" /\ ~loc[p].failed /\ ~loc[p].panicking

\* the result (or the signed transaction) is that of the group
IsOf(tx, group) == tx.first = group[1].id /\ tx.count = Len(group)

\* C16: in each attempt the remaining messages are cut into consecutive
\* groups of batch messages in their order, only the last one possibly
\* shorter; the transaction built, size-checked and broadcast is that of
\* group i+1 when exactly the groups 1..i of the attempt have been broadcast,
\* their results being the last i results, in that order.
C16_GroupsInOrder ==
  \A p \in Procs :
    (Batching(p) /\ InLoop(p)) =>
      LET groups == SubArray(loc[p].batch, loc[p].msgs)
          i == loc[p].i
          rs == loc[p].rs
      IN  /\ Flatten(groups) = loc[p].msgs
          /\ \A g \in 1..(Len(groups) - 1) : Len(groups[g]) = loc[p].batch
          /\ Len(groups[Len(groups)]) \in 1..loc[p].batch
          /\ i <= Len(groups)
          /\ pc[p] = "unlock" <=> i = Len(groups)
          /\ pc[p] \in {"size", "broadcast"} => IsOf(loc[p].tx, groups[i + 1])
          /\ Len(rs) >= i
          /\ \A g \in 1..i : IsOf(rs[Len(rs) - i + g], groups[g])

\* the second attempt, with groups of 50, is about to broadcast its third
\* group
C16_Witness ==
  \E p \in Procs :
    /\ Batching(p) /\ pc[p] = "broadcast"
    /\ loc[p].n = 1 /\ loc[p].batch = 50 /\ loc[p].i = 2
    /\ Len(loc[p].msgs) = 250

\* the next step of a SendBatch in which a panic is unwinding is its return:
\* the shard is released, the handler has been called, no panic goes on
C17_Step ==
  \A p \in Procs :
    (Batching(p) /\ loc[p].panicking /\ StepOf(p)) =>
      /\ pc'[p] = "idle"
      /\ ret'.proc = p /\ ret'.kind = "SendBatch"
      /\ ~ret'.panic
      /\ ret'.handler # <<>>
      /\ shards'[getShard(op[p].from)] = <<>>

\* C17: a panic raised while SendBatch builds is recovered by SendBatch:
\* the failure handler is called with a message, the caller sees a normal
\* return and the sender's shard is free again; no SendBatch return carries
\* a panic.
C17_PanicRecovered ==
  /\ [](ret.kind = "SendBatch" => ~ret.panic)
  /\ [](\A p \in Procs : loc[p].panicking => pc[p] = "unlock")
  /\ [][C17_Step]_vars

\* a SendBatch has returned after the panic of prepare at its second group
C17_Witness ==
  /\ ret.kind = "SendBatch"
  /\ ret.handler # <<>>
  /\ Len(ret.rs) = 1
  /\ \A s \in DOMAIN shards : shards[s] = <<>>

\* C18: Lock(a) returns without waiting whenever the shard of a is free,
\* whichever other shards are held, so calls whose keys map to different
\* shards are in their windows together; a call waits in Lock only for a
\* holder of its own shard.
C18_DifferentShardsIndependent ==
  \A p \in Procs :
    pc[p] = "lock" =>
      /\ shards[getShard(op[p].from)] = <<>> => ENABLED Lock(p)
      /\ ~ENABLED Lock(p) =>
           \E q \in Procs \ {p} :
             InWindow(q) /\ getShard(op[q].from) = getShard(op[p].from)

\* a call with key "b" (shard 13) has acquired its shard while a call with
\* key "a" (shard 14) holds its own
C18_Witness ==
  \E p, q \in Procs :
    /\ op[p].from = <<97>> /\ op[q].from = <<98>>
    /\ getShard(op[p].from) # getShard(op[q].from)
    /\ InWindow(p) /\ InWindow(q)
    /\ pc[q] = "build"

\* the results are of groups of distinct messages, in message order
Disjoint(rs) ==
  \A j, k \in 1..Len(rs) :
    j < k => rs[j].first + rs[j].count <= rs[k].first

\* C19: within one SendBatch call no message is in more than one broadcast
\* transaction and the results returned are one per group in message order,
\* also when an attempt is retried after a sequence failure at a later group
\* than the first.
C19_NoMessageBroadcastTwice ==
  /\ \A p \in Procs : op[p].kind = "SendBatch" => Disjoint(loc[p].rs)
  /\ ret.kind = "SendBatch" => Disjoint(ret.rs)

\* the tokens in all the shard channels
RECURSIVE Tokens(_)
Tokens(n) == IF n = 0 THEN 0 ELSE Len(shards[n - 1]) + Tokens(n - 1)

\* C20: under fair scheduling, with every network call returning, every
\* BuildAndSend and SendBatch call returns; a call holds one shard token at
\* most and takes none while it holds one, it makes 3 attempts at most and
\* each attempt goes through the groups of a finite list.
C20_EveryCallReturns ==
  /\ \A p \in Procs : (pc[p] # "idle") ~> (pc[p] = "idle")
  /\ [](Tokens(concurrency) = Cardinality({p \in Procs : InWindow(p)}))
  /\ [](\A p \in Procs :
          /\ loc[p].n < tryThreshold
          /\ (Batching(p) /\ InLoop(p)) =>
               loc[p].i <= Len(SubArray(loc[p].batch, loc[p].msgs)))
  /\ [][\A p \in Procs : InWindow(p) /\ InWindow(p)' => shards' = shards
                          \/ ~StepOf(p)]_vars

\* a call has waited in Lock while another held its shard, and has returned
\* from its third attempt
C20_Witness ==
  /\ ret.kind = "BuildAndSend"
  /\ ret.attempts = tryThreshold
  /\ \E q \in Procs : q # ret.proc /\ pc[q] = "lock" /\ op[q].from = ret.from
====
